---- MODULE Spec2Model ----
(***************************************************************************)
(* Indexing and retrieval pipeline of the knowledge-base assistant:        *)
(* the knowledge root (documents on disk), the per-category vector         *)
(* indexes, the global index, the temporary fallback stores, and the       *)
(* operations that write and read them (upload, Drive sync, rebuild        *)
(* script, page load, document deletion, handle_chat).                     *)
(*                                                                         *)
(* Paths are sequences of path segments relative to their root.  A file    *)
(* is <<directory path, file name>>.  An index is a function from source   *)
(* file to the number of records stored with that source.                  *)
(***************************************************************************)
EXTENDS Integers, Sequences, FiniteSets, TLC

\* ---------------------------------------------------------------- bounds
\* Number of operations (uploads, syncs, deletions, page loads, rebuilds,
\* chat requests) in one run of the program.
MaxOps == 3

\* Number of those operations that meet a failure of their environment: an
\* unavailable backend, a failing store, a failing Drive call, a corrupt or
\* replaced file.
MaxFaults == 1

\* Largest configured CHUNK_SIZE and CHUNK_OVERLAP of a splitting job.
MaxChunkSize == 4

\* Longest document text of a splitting job, in characters.
MaxTextLen == 3

\* ------------------------------------------------------- paths and files
GLOBAL == <<"__global__">>

DRIVE_ROOT == "ggbond_knowledge"

\* Directories of the knowledge root that can exist.
DirPaths == {<<"a">>, <<"b">>, <<DRIVE_ROOT>>, <<DRIVE_ROOT, "a">>}

\* Categories a user can pick in the upload section / Drive sub-folders.
UserCats == {"a", "b"}

DriveCats == {"a"}

\* Index keys: one directory of the vector root per path, plus the global one.
KeyPaths == DirPaths \cup {GLOBAL}

Files == {<<<<"a">>, "x">>, <<<<"a">>, "y">>, <<<<"b">>, "x">>,
          <<<<DRIVE_ROOT, "a">>, "x">>}

NoFile == <<<<>>, "">>

NoKey == <<>>

\* Content of a file slot: "none" (absent), "ok" (a decodable document),
\* "bad" (a document its loader cannot read).

EmptyIndex == [f \in Files |-> 0]

\* Number of chunks the splitter yields for a decodable file.
NumChunks(f) == IF f[2] = "y" THEN 2 ELSE 1

VARIABLES
    kb,        \* knowledge root: content of every file slot
    kbDirs,    \* directories existing under the knowledge root
    vdirs,     \* directories existing under VECTOR_DB_PATH
    idx,       \* records persisted under VECTOR_DB_PATH/<key>
    tmpIdx,    \* records persisted under TEMP_DIR/vectordb/<key>
    fbIdx,     \* records persisted under TEMP_DIR/chroma_fallback/<key>
    vsCache,   \* lru_cache of get_vectorstore_client for the global path
    lastOp,    \* what the last operation was given and what it returned
    ops,       \* number of operations run so far
    faults,    \* number of operations that met a failing environment
    calls,     \* position of every session thread inside embed_single_file
    defIdx,    \* records persisted under VECTOR_DB_PATH/<key>, collection "default"
    processed, \* st.session_state.files_processed of the browser session
    splitter   \* configuration, splitter and chunks of one splitting job

vars == <<kb, kbDirs, vdirs, idx, tmpIdx, fbIdx, vsCache, lastOp, ops, faults,
          calls, defIdx, processed, splitter>>

\* The knowledge root and the stores an indexing call works on, as one value.
Stores == [kb |-> kb, vdirs |-> vdirs, idx |-> idx, tmp |-> tmpIdx, fb |-> fbIdx]

Count(index) == index[<<<<"a">>, "x">>] + index[<<<<"a">>, "y">>]
                + index[<<<<"b">>, "x">>] + index[<<<<DRIVE_ROOT, "a">>, "x">>]

AddRecords(index, f, n) == [index EXCEPT ![f] = @ + n]

\* Documents get_knowledge_base_files returns: every file with a supported suffix.
get_knowledge_base_files(s) == {f \in Files : s.kb[f] # "none"}

\* load_single_document: the number of chunks the loaded documents split
\* into, 0 when the loader throws and [] is returned.
load_single_document(s, f) == IF s.kb[f] = "ok" THEN NumChunks(f) ELSE 0

\* ------------------------------------------------ environment of one call
\* Outcome of one attempt to embed and persist a batch in one location.
Attempts == {"ok", "embed_fail", "store_fail"}

\* Outcome of the mirror insert into the global index.
GlobalOutcomes == {"ok", "open_fail", "add_fail"}

\* mk: the vector directory can be created; h: get_embedding_model returns a
\* model; c1: the insert at the category location; c2: the insert at the
\* chroma_fallback location; g: update_global_vectordb_with_file.
\* Fields that are never consulted in a scenario keep their "ok" value, and
\* at most one of the mirror insert and the directory creation fails together
\* with nothing else.
HealthyEnv == [mk |-> TRUE, h |-> TRUE, c1 |-> "ok", c2 |-> "ok", g |-> "ok"]

Envs == {e \in [mk : BOOLEAN, h : BOOLEAN, c1 : Attempts, c2 : Attempts,
                g : GlobalOutcomes] :
            /\ (~e.h => e.mk /\ e.c1 = "ok" /\ e.c2 = "ok" /\ e.g = "ok")
            /\ (e.c1 = "ok" => e.c2 = "ok")
            /\ (e.c1 # "ok" => e.mk /\ e.g = "ok")
            /\ (~e.mk => e.g = "ok")}

\* What went wrong first while embedding for the category index.
FirstFault(env) ==
    IF ~env.h THEN "health"
    ELSE IF env.c1 = "embed_fail" THEN "embed"
    ELSE IF env.c1 = "store_fail" THEN "store"
    ELSE "none"

\* ------------------------------------------------------- indexing one file
\* update_global_vectordb_with_file: load, split, open the global store, add.
update_global_vectordb_with_file(s, f, g) ==
    IF load_single_document(s, f) = 0 THEN [s |-> s, ok |-> FALSE]
    ELSE IF g = "open_fail" THEN [s |-> s, ok |-> FALSE]
    ELSE IF g = "add_fail"
         THEN [s |-> [s EXCEPT !.vdirs = @ \cup {GLOBAL}], ok |-> FALSE]
    ELSE [s |-> [s EXCEPT !.vdirs = @ \cup {GLOBAL},
                          !.idx[GLOBAL] = AddRecords(@, f, load_single_document(s, f))],
          ok |-> TRUE]

\* Result of embed_single_file when it returns False before any insert.
EmbedFailed(s) == [s |-> s, ok |-> FALSE, catLoc |-> "none", globalOk |-> FALSE]

\* As EmbedMirror, but a failed mirror insert fails the whole call.
EmbedMirrorStrict(s, f, env, loc) ==
    LET m == update_global_vectordb_with_file(s, f, env.g)
    IN [s |-> m.s, ok |-> m.ok, catLoc |-> loc, globalOk |-> m.ok]

\* The mirror step and the return value that follow a category insert.
EmbedMirror(s, f, env, loc) ==
    LET m == update_global_vectordb_with_file(s, f, env.g)
    IN [s |-> m.s, ok |-> TRUE, catLoc |-> loc, globalOk |-> m.ok]

\* The index key embed_single_file uses: the category argument when given,
\* otherwise the parent directory of the file relative to the knowledge root.
CategoryPath(f, category) == IF category = NoKey THEN f[1] ELSE category

embed_single_file(s, f, category, env) ==
    LET key == CategoryPath(f, category)
        n == load_single_document(s, f)
        s1 == IF env.mk THEN [s EXCEPT !.vdirs = @ \cup {key}] ELSE s
    IN IF n = 0 THEN EmbedFailed(s1)
       ELSE IF ~env.h THEN EmbedFailed(s1)
       ELSE IF env.c1 = "ok"
            THEN IF env.mk
                 THEN EmbedMirror([s1 EXCEPT !.idx[key] = AddRecords(@, f, n)],
                                  f, env, "main")
                 ELSE EmbedMirror([s1 EXCEPT !.tmp[key] = AddRecords(@, f, n)],
                                  f, env, "tmp_vectordb")
       ELSE IF env.c2 = "ok"
            THEN EmbedMirror([s1 EXCEPT !.fb[key] = AddRecords(@, f, n)],
                             f, env, "chroma_fallback")
       ELSE EmbedFailed(s1)

\* ------------------------------------------------------------ bookkeeping
\* An operation starts while the run has operations left; faulty says that
\* its environment fails somewhere.
Tick(faulty) ==
    /\ ops < MaxOps
    /\ ops' = ops + 1
    /\ faulty => faults < MaxFaults
    /\ faults' = IF faulty THEN faults + 1 ELSE faults

Step(faulty) ==
    /\ Tick(faulty)
    /\ UNCHANGED <<calls, defIdx, processed, splitter>>

SetStores(s) ==
    /\ kb' = s.kb
    /\ vdirs' = s.vdirs
    /\ idx' = s.idx
    /\ tmpIdx' = s.tmp
    /\ fbIdx' = s.fb

\* The record kept about the last operation.  The chat fields are: mode,
\* msg (the message returned), handed (a retriever reached the QA chain),
\* retrCount (records behind that retriever when it was handed over),
\* ensured (calls of ensure_global_vectordb), opened (an index was opened),
\* worked (a document was loaded or an embedding model was requested),
\* docs (the selected document names), returned (the files whose records the
\* retriever returned to the QA chain).  streak counts the rebuilds that ran
\* one right after the other up to this operation; shown is the set of
\* messages the upload section displayed for the file.
NoOp == [op |-> "init", file |-> NoFile, key |-> NoKey, ok |-> FALSE,
         healthy |-> TRUE, fault |-> "none", catLoc |-> "none",
         globalOk |-> FALSE, mode |-> "", msg |-> "", handed |-> FALSE,
         retrCount |-> 0, ensured |-> 0, opened |-> FALSE, worked |-> FALSE,
         docs |-> {}, streak |-> 0, returned |-> {}, shown |-> {}]

Parents(d) == {SubSeq(d, 1, i) : i \in 1..Len(d)}

\* The sessions of the application: Streamlit runs the script of every
\* browser session in a thread of its own.
Sessions == {"s1", "s2"}

\* Where a thread is: ph is the store it works on ("cat": the category
\* index, "fb": the chroma_fallback store, "glob": the global index, "none":
\* outside), st the last step it completed.
Pos(ph, st) == [ph |-> ph, st |-> st]

IdleCall == [at |-> Pos("none", "idle"), file |-> NoFile]

\* No splitting job: the configured defaults, nothing built, nothing split.
NoSplit == [size |-> 1000, overlap |-> 200, kind |-> "none", text |-> <<>>,
            stage |-> "configured",
            built |-> [chunk_size |-> 0, chunk_overlap |-> 0, separators |-> <<>>],
            chunks |-> <<>>]

Init ==
    /\ kb = [f \in Files |-> "none"]
    /\ kbDirs = {<<"a">>, <<"b">>}
    /\ vdirs = {}
    /\ idx = [k \in KeyPaths |-> EmptyIndex]
    /\ tmpIdx = [k \in KeyPaths |-> EmptyIndex]
    /\ fbIdx = [k \in KeyPaths |-> EmptyIndex]
    /\ vsCache = "unset"
    /\ lastOp = NoOp
    /\ ops = 0
    /\ faults = 0
    /\ calls = [p \in Sessions |-> IdleCall]
    /\ defIdx = [k \in KeyPaths |-> EmptyIndex]
    /\ processed = {}
    /\ splitter = NoSplit

IndexOp(name, f, key, env, content, r) ==
    [NoOp EXCEPT !.op = name, !.file = f, !.key = key, !.ok = r.ok,
                 !.healthy = (env = HealthyEnv /\ content = "ok"),
                 !.fault = FirstFault(env), !.catLoc = r.catLoc,
                 !.globalOk = r.globalOk]

\* ----------------------------------------------------------------- upload
\* What render_upload_section displays for one file of the batch:
\* process_uploaded_file shows an error when it returns False, and the loop
\* shows "processed successfully" after every call, whatever it returned.
UploadMessages(ok) == IF ok THEN {"success"} ELSE {"error", "success"}

\* process_uploaded_file: authenticate Drive, save the file under the
\* category, upload it to Drive, then embed_single_file(path, category).
process_uploaded_file(c, name, content, authOk, upOk, env) ==
    LET f == <<<<c>>, name>>
        saved == [Stores EXCEPT !.kb[f] = content]
        r == embed_single_file(saved, f, <<c>>, env)
    IN /\ f \in Files
       /\ (content # "ok" => authOk /\ upOk /\ env = HealthyEnv)
       /\ (~authOk => upOk /\ env = HealthyEnv)
       /\ (~upOk => env = HealthyEnv)
       /\ IF ~authOk
          THEN /\ UNCHANGED <<kb, kbDirs, vdirs, idx, tmpIdx, fbIdx>>
               /\ lastOp' = [NoOp EXCEPT !.op = "upload", !.file = f, !.key = <<c>>,
                                         !.healthy = FALSE, !.fault = "drive",
                                         !.shown = UploadMessages(FALSE)]
          ELSE IF ~upOk
          THEN /\ SetStores(saved)
               /\ kbDirs' = kbDirs \cup {<<c>>}
               /\ lastOp' = [NoOp EXCEPT !.op = "upload", !.file = f, !.key = <<c>>,
                                         !.healthy = FALSE, !.fault = "drive",
                                         !.shown = UploadMessages(FALSE)]
          ELSE /\ SetStores(r.s)
               /\ kbDirs' = kbDirs \cup {<<c>>}
               /\ lastOp' = [IndexOp("upload", f, <<c>>, env, content, r)
                                EXCEPT !.shown = UploadMessages(r.ok)]
       /\ UNCHANGED vsCache

\* One upload through the upload section of a fresh browser session.
Upload(c, name, content, authOk, upOk, env) ==
    /\ Step(~authOk \/ ~upOk \/ env # HealthyEnv \/ content # "ok")
    /\ process_uploaded_file(c, name, content, authOk, upOk, env)

\* ------------------------------------------------------------- Drive sync
\* sync_drive_files delivering one new or updated file of a Drive category
\* folder: it is saved under ggbond_knowledge/<category> and indexed with
\* embed_single_file(target_path, category_name).
DriveSync(c, name, content, env) ==
    LET d == <<DRIVE_ROOT, c>>
        f == <<d, name>>
        saved == [Stores EXCEPT !.kb[f] = content]
        r == embed_single_file(saved, f, <<c>>, env)
    IN /\ Step(env # HealthyEnv \/ content # "ok")
       /\ f \in Files
       /\ (content # "ok" => env = HealthyEnv)
       /\ SetStores(r.s)
       /\ kbDirs' = kbDirs \cup Parents(d)
       /\ lastOp' = IndexOp("sync", f, <<c>>, env, content, r)
       /\ UNCHANGED vsCache

\* ---------------------------------------------------------- delete a file
\* As DeleteFile, but the records of the document are retracted as well.
DeleteFileRetracting(f) ==
    /\ Step(FALSE)
    /\ kb[f] # "none"
    /\ kb' = [kb EXCEPT ![f] = "none"]
    /\ idx' = [k \in KeyPaths |-> [idx[k] EXCEPT ![f] = 0]]
    /\ lastOp' = [NoOp EXCEPT !.op = "delete", !.file = f, !.ok = TRUE]
    /\ UNCHANGED <<kbDirs, vdirs, tmpIdx, fbIdx, vsCache>>

\* delete_file(category, filename): removes the document, nothing else.
DeleteFile(f) ==
    /\ Step(FALSE)
    /\ kb[f] # "none"
    /\ kb' = [kb EXCEPT ![f] = "none"]
    /\ lastOp' = [NoOp EXCEPT !.op = "delete", !.file = f, !.ok = TRUE]
    /\ UNCHANGED <<kbDirs, vdirs, idx, tmpIdx, fbIdx, vsCache>>

\* ------------------------------------------------------- delete a category
\* d is the directory dir or lies below it.
Under(d, dir) == Len(d) >= Len(dir) /\ SubSeq(d, 1, Len(dir)) = dir

\* delete_category(category): shutil.rmtree of the directory of the category
\* under the knowledge root, when it exists; nothing else.
DeleteCategory(c) ==
    /\ Step(FALSE)
    /\ IF <<c>> \in kbDirs
       THEN /\ kb' = [f \in Files |-> IF Under(f[1], <<c>>) THEN "none" ELSE kb[f]]
            /\ kbDirs' = {d \in kbDirs : ~Under(d, <<c>>)}
            /\ lastOp' = [NoOp EXCEPT !.op = "delete_category", !.key = <<c>>,
                                      !.ok = TRUE]
       ELSE /\ UNCHANGED <<kb, kbDirs>>
            /\ lastOp' = [NoOp EXCEPT !.op = "delete_category", !.key = <<c>>]
    /\ UNCHANGED <<vdirs, idx, tmpIdx, fbIdx, vsCache>>

\* --------------------------------------------------------------- page load
\* ensure_vector_db_structure: the global directory and a mirror of every
\* directory of the knowledge root are created under VECTOR_DB_PATH.
ensure_vector_db_structure(s, dirs) == [s EXCEPT !.vdirs = @ \cup {GLOBAL} \cup dirs]

\* main(): every page run starts with ensure_vector_db_structure().
PageLoad ==
    /\ Step(FALSE)
    /\ SetStores(ensure_vector_db_structure(Stores, kbDirs))
    /\ lastOp' = [NoOp EXCEPT !.op = "pageload", !.ok = TRUE]
    /\ UNCHANGED <<kbDirs, vsCache>>

\* ----------------------------------------------------------------- rebuild
\* As FileItems, but every item is the Path of the file.
AsPathItems(files) == {[kind |-> "path", file |-> f] : f \in files}

\* The items rebuild_vectorstore passes on: (category, filename) tuples.
FileItems(files) == {[kind |-> "tuple", file |-> f] : f \in files}

\* The loop of rebuild_vectordb_for_files.  An item that is not a Path has
\* no exists(): the AttributeError ends the loop in the outer handler.
RECURSIVE RebuildLoop(_, _, _)
RebuildLoop(s, items, env) ==
    IF items = {} THEN [s |-> s, ok |-> TRUE]
    ELSE LET it == CHOOSE i \in items : TRUE
         IN IF it.kind # "path" THEN [s |-> s, ok |-> FALSE]
            ELSE IF s.kb[it.file] = "none"
                 THEN RebuildLoop(s, items \ {it}, env)
            ELSE RebuildLoop(embed_single_file(s, it.file, NoKey, env).s,
                             items \ {it}, env)

rebuild_vectordb_for_files(s, dirs, items, env) ==
    RebuildLoop(ensure_vector_db_structure(s, dirs), items, env)

\* shutil.rmtree(VECTOR_DB_PATH): every index under the vector root is gone.
RemoveVectorRoot(s) ==
    [s EXCEPT !.vdirs = {}, !.idx = [k \in KeyPaths |-> EmptyIndex]]

\* rebuild_vectorstore(): the rebuild script.
rebuild_vectorstore(s, dirs, env) ==
    LET files == get_knowledge_base_files(s)
    IN IF files = {} THEN [s |-> s, ok |-> FALSE]
       ELSE rebuild_vectordb_for_files(RemoveVectorRoot(s), dirs,
                                       FileItems(files), env)

Rebuild(env) ==
    LET r == rebuild_vectorstore(Stores, kbDirs, env)
    IN /\ Step(env # HealthyEnv)
       /\ SetStores(r.s)
       /\ lastOp' = [NoOp EXCEPT !.op = "rebuild", !.ok = r.ok,
                                 !.healthy = (env = HealthyEnv),
                                 !.fault = FirstFault(env),
                                 !.streak = lastOp.streak + 1]
       /\ UNCHANGED <<kbDirs, vsCache>>

\* ------------------------------------------------------------------- chat
EnsureOutcomes == {"ok", "model_fail", "add_fail"}

\* ensure_global_vectordb: load every document of the knowledge root, split,
\* embed and add all of them to the global store.
ensure_global_vectordb(s, e) ==
    IF e = "model_fail" THEN [s |-> s, ok |-> FALSE]
    ELSE IF \A f \in Files : load_single_document(s, f) = 0
         THEN [s |-> s, ok |-> FALSE]
    ELSE IF e = "add_fail"
         THEN [s |-> [s EXCEPT !.vdirs = @ \cup {GLOBAL}], ok |-> FALSE]
    ELSE [s |-> [s EXCEPT !.vdirs = @ \cup {GLOBAL},
                          !.idx[GLOBAL] = [f \in Files |->
                                             @[f] + load_single_document(s, f)]],
          ok |-> TRUE]

\* get_vectorstore_client under lru_cache: the first result, a client or
\* None, is what every later call with the same path returns.
get_vectorstore_client(s, cache, cli) ==
    IF cache # "unset" THEN [s |-> s, cache |-> cache, vs |-> cache]
    ELSE IF cli = "ok"
         THEN [s |-> [s EXCEPT !.vdirs = @ \cup {GLOBAL}], cache |-> "client",
               vs |-> "client"]
    ELSE [s |-> s, cache |-> "none", vs |-> "none"]

\* get_vectordb: build the global store when its directory is missing, then
\* return the cached client.
get_vectordb(s, cache, ens, cli) ==
    IF GLOBAL \notin s.vdirs
    THEN LET r == ensure_global_vectordb(s, ens)
         IN IF ~r.ok
            THEN [s |-> r.s, cache |-> cache, vs |-> "none", ensured |-> 1]
            ELSE [ensured |-> 1] @@ get_vectorstore_client(r.s, cache, cli)
    ELSE [ensured |-> 0] @@ get_vectorstore_client(s, cache, cli)

\* The QA part shared by both document modes: get_chat_qa_chain needs the
\* LLM and the retriever, then the chain is invoked.
QAResult(llm, qa) ==
    IF ~llm THEN "qa_chain_failed"
    ELSE IF qa THEN "answer"
    ELSE "processing_failed"

HealthyKnowledge == [llm |-> TRUE, qa |-> TRUE, ens1 |-> "ok", ens2 |-> "ok",
                     cli |-> "ok"]

KnowledgeInputs == {i \in [llm : BOOLEAN, qa : BOOLEAN, ens1 : EnsureOutcomes,
                           ens2 : EnsureOutcomes, cli : {"ok", "fail"}] :
                       ~(i.llm /\ i.qa) =>
                           i.ens1 = "ok" /\ i.ens2 = "ok" /\ (i.llm \/ i.qa)}

\* handle_chat, chat_mode == "knowledge_chat".
handle_knowledge_chat(s, cache, i) ==
    LET v1 == get_vectordb(s, cache, i.ens1, i.cli)
        r == ensure_global_vectordb(v1.s, i.ens2)
        v2 == get_vectordb(r.s, v1.cache, i.ens2, i.cli)
        out == [s |-> s, cache |-> cache, msg |-> "", handed |-> FALSE,
                retrCount |-> 0, ensured |-> 0]
    IN IF v1.vs # "none"
       THEN [out EXCEPT !.s = v1.s, !.cache = v1.cache, !.ensured = v1.ensured,
                        !.msg = QAResult(i.llm, i.qa), !.handed = i.llm,
                        !.retrCount = Count(v1.s.idx[GLOBAL])]
       ELSE IF ~r.ok
       THEN [out EXCEPT !.s = r.s, !.cache = v1.cache,
                        !.ensured = v1.ensured + 1, !.msg = "global_init_failed"]
       ELSE IF v2.vs = "none"
       THEN [out EXCEPT !.s = v2.s, !.cache = v2.cache,
                        !.ensured = v1.ensured + 1 + v2.ensured,
                        !.msg = "global_load_failed"]
       ELSE [out EXCEPT !.s = v2.s, !.cache = v2.cache,
                        !.ensured = v1.ensured + 1 + v2.ensured,
                        !.msg = QAResult(i.llm, i.qa), !.handed = i.llm,
                        !.retrCount = Count(v2.s.idx[GLOBAL])]

KnowledgeChat(i) ==
    LET r == handle_knowledge_chat(Stores, vsCache, i)
    IN /\ Step(i # HealthyKnowledge)
       /\ SetStores(r.s)
       /\ vsCache' = r.cache
       /\ lastOp' = [NoOp EXCEPT !.op = "chat", !.mode = "knowledge_chat",
                                 !.key = GLOBAL, !.msg = r.msg,
                                 !.ok = (r.msg = "answer"), !.handed = r.handed,
                                 !.retrCount = r.retrCount, !.ensured = r.ensured,
                                 !.opened = TRUE, !.worked = TRUE]
       /\ UNCHANGED kbDirs

\* KNOWLEDGE_BASE_PATH, the first segment of the path of every saved file.
KB_ROOT == "knowledge_db"

\* metadata["source"] = str(file_path): the path of the file as it was saved,
\* knowledge root included.
SourceOf(f) == <<KB_ROOT>> \o f[1] \o <<f[2]>>

\* The values the document selector supplies: bare file names.
SelectedSources(docs) == {<<n>> : n \in docs}

\* As Search, without the source filter.
SearchUnfiltered(index, docs) == {f \in Files : index[f] >= 1}

\* As Search, the filter matching the file name of the source.
SearchByName(index, docs) == {f \in Files : index[f] >= 1 /\ f[2] \in docs}

\* The files whose records a retriever built with
\* filter = {"source": {"$in": selected_files}} returns for a query that
\* matches every record: the stored source equals one of the selected values.
Search(index, docs) ==
    {f \in Files : index[f] >= 1 /\ SourceOf(f) \in SelectedSources(docs)}

\* What a vector-store archive found on Drive for a category unpacks to.
Archives == {"none", "empty", "records"}

ArchiveIndex(archive, key) ==
    IF archive = "records" /\ <<key, "x">> \in Files
    THEN [EmptyIndex EXCEPT ![<<key, "x">>] = 1]
    ELSE EmptyIndex

HealthyCategory == [llm |-> TRUE, qa |-> TRUE, hf |-> TRUE, archive |-> "none",
                    open |-> TRUE]

CategoryInputs == {i \in [llm : BOOLEAN, qa : BOOLEAN, hf : BOOLEAN,
                          archive : Archives, open : BOOLEAN] :
                      /\ (~i.llm => i.qa)
                      /\ (~(i.llm /\ i.qa) => i.hf /\ i.archive = "none" /\ i.open)
                      /\ (~i.hf => i.archive = "none" /\ i.open)
                      /\ (~i.open => i.archive = "none")}

\* As get_category_docs_retriever, without the check for an empty collection.
RetrieverWithoutCountCheck(s, key, i) ==
    LET s2 == IF i.archive = "none" THEN s
              ELSE [s EXCEPT !.vdirs = @ \cup {key},
                             !.idx[key] = ArchiveIndex(i.archive, key)]
        s3 == [s2 EXCEPT !.vdirs = @ \cup {key}]
    IN IF ~i.hf THEN [s |-> s, res |-> "raise", opened |-> FALSE, count |-> 0]
       ELSE IF ~i.open
       THEN [s |-> s2, res |-> "raise", opened |-> FALSE, count |-> 0]
       ELSE [s |-> s3, res |-> "retriever", opened |-> TRUE,
             count |-> Count(s3.idx[key])]

\* get_category_docs_retriever: embedding model, load_vector_store_from_drive,
\* initialize_chroma, count check, retriever with the source filter.
get_category_docs_retriever(s, key, i) ==
    LET s2 == IF i.archive = "none" THEN s
              ELSE [s EXCEPT !.vdirs = @ \cup {key},
                             !.idx[key] = ArchiveIndex(i.archive, key)]
        s3 == [s2 EXCEPT !.vdirs = @ \cup {key}]
    IN IF ~i.hf THEN [s |-> s, res |-> "raise", opened |-> FALSE, count |-> 0]
       ELSE IF ~i.open
       THEN [s |-> s2, res |-> "raise", opened |-> FALSE, count |-> 0]
       ELSE IF Count(s3.idx[key]) = 0
       THEN [s |-> s3, res |-> "none", opened |-> TRUE, count |-> 0]
       ELSE [s |-> s3, res |-> "retriever", opened |-> TRUE,
             count |-> Count(s3.idx[key])]

\* As handle_category_qa, but the selection is checked after the retriever
\* of a given category was resolved.
CategoryQaCheckingLate(s, c, docs, i) ==
    LET r == get_category_docs_retriever(s, <<c>>, i)
        out == [s |-> s, msg |-> "select_category_and_docs", handed |-> FALSE,
                retrCount |-> 0, opened |-> FALSE, worked |-> FALSE,
                returned |-> {}]
    IN IF c = "" THEN out
       ELSE IF r.res = "raise"
       THEN [out EXCEPT !.s = r.s, !.msg = "error", !.worked = TRUE]
       ELSE IF docs = {}
       THEN [out EXCEPT !.s = r.s, !.opened = TRUE, !.worked = TRUE]
       ELSE IF r.res = "none"
       THEN [out EXCEPT !.s = r.s, !.msg = "document_loading_failed",
                        !.opened = TRUE, !.worked = TRUE]
       ELSE [out EXCEPT !.s = r.s, !.msg = QAResult(i.llm, i.qa),
                        !.handed = i.llm, !.retrCount = r.count,
                        !.opened = TRUE, !.worked = TRUE,
                        !.returned = IF i.llm /\ i.qa
                                     THEN Search(r.s.idx[<<c>>], docs)
                                     ELSE {}]

\* handle_chat, chat_mode == "category_qa".
handle_category_qa(s, c, docs, i) ==
    LET r == get_category_docs_retriever(s, <<c>>, i)
        out == [s |-> s, msg |-> "select_category_and_docs", handed |-> FALSE,
                retrCount |-> 0, opened |-> FALSE, worked |-> FALSE,
                returned |-> {}]
    IN IF c = "" \/ docs = {} THEN out
       ELSE IF r.res = "raise"
       THEN [out EXCEPT !.s = r.s, !.msg = "error", !.worked = TRUE]
       ELSE IF r.res = "none"
       THEN [out EXCEPT !.s = r.s, !.msg = "document_loading_failed",
                        !.opened = TRUE, !.worked = TRUE]
       ELSE [out EXCEPT !.s = r.s, !.msg = QAResult(i.llm, i.qa),
                        !.handed = i.llm, !.retrCount = r.count,
                        !.opened = TRUE, !.worked = TRUE,
                        !.returned = IF i.llm /\ i.qa
                                     THEN Search(r.s.idx[<<c>>], docs)
                                     ELSE {}]

CategoryChat(c, docs, i) ==
    LET r == handle_category_qa(Stores, c, docs, i)
    IN /\ Step(i # HealthyCategory)
       /\ (c = "" \/ docs = {} => i = HealthyCategory)
       /\ (c = "" => docs = {})
       /\ SetStores(r.s)
       /\ lastOp' = [NoOp EXCEPT !.op = "chat", !.mode = "category_qa",
                                 !.healthy = (i = HealthyCategory),
                                 !.key = IF c = "" THEN NoKey ELSE <<c>>,
                                 !.msg = r.msg, !.ok = (r.msg = "answer"),
                                 !.handed = r.handed, !.retrCount = r.retrCount,
                                 !.opened = r.opened, !.worked = r.worked,
                                 !.docs = docs, !.returned = r.returned]
       /\ UNCHANGED <<kbDirs, vsCache>>

\* handle_chat, chat_mode == "free_chat": the LLM answers, no index is read.
FreeChat(llm) ==
    /\ Step(~llm)
    /\ lastOp' = [NoOp EXCEPT !.op = "chat", !.mode = "free_chat",
                              !.msg = IF llm THEN "answer" ELSE "llm_failed",
                              !.ok = llm]
    /\ UNCHANGED <<kb, kbDirs, vdirs, idx, tmpIdx, fbIdx, vsCache>>

Next ==
    \/ PageLoad
    \/ \E f \in Files : DeleteFile(f)
    \/ \E c \in UserCats \cup {DRIVE_ROOT} : DeleteCategory(c)
    \/ \E env \in Envs : Rebuild(env)
    \/ \E c \in UserCats, name \in {"x", "y"}, content \in {"ok", "bad"},
          authOk \in BOOLEAN, upOk \in BOOLEAN, env \in Envs :
           Upload(c, name, content, authOk, upOk, env)
    \/ \E c \in DriveCats, name \in {"x", "y"}, content \in {"ok", "bad"},
          env \in Envs :
           DriveSync(c, name, content, env)
    \/ \E i \in KnowledgeInputs : KnowledgeChat(i)
    \/ \E c \in {"", "a", "b"}, docs \in {{}, {"x"}, {"x", "y"}},
          i \in CategoryInputs :
           CategoryChat(c, docs, i)
    \/ \E llm \in BOOLEAN : FreeChat(llm)

Spec == Init /\ [][Next]_vars

\* ------------------------------------------- concurrent uploads, by step
\* Two sessions upload at the same time.  Each thread runs
\* process_uploaded_file -> embed_single_file step by step: Chroma opens the
\* store, asks the embedding backend for the vectors, inserts the records,
\* persists; first for the category index (with the retry in the
\* chroma_fallback store), then for the global index.
Replies == {"answer", "error", "silent"}

\* The files a session can upload.
UploadFiles == {f \in Files : \E c \in UserCats : f[1] = <<c>>}

\* process_uploaded_file up to the first store access of embed_single_file:
\* the file is saved, the vector directory made, the document loaded and split.
Begin(p, f) ==
    /\ calls[p].at = Pos("none", "idle")
    /\ calls' = [calls EXCEPT ![p] = [at |-> Pos("none", "loaded"), file |-> f]]
    /\ kb' = [kb EXCEPT ![f] = "ok"]
    /\ vdirs' = vdirs \cup {f[1]}
    /\ UNCHANGED <<kbDirs, idx, tmpIdx, fbIdx, vsCache, lastOp, ops, faults>>
    /\ UNCHANGED <<defIdx, processed, splitter>>

\* Chroma.from_documents / ChromaDB(persist_directory=...): the store is opened.
Open(p) ==
    /\ \/ /\ calls[p].at = Pos("none", "loaded")
          /\ calls' = [calls EXCEPT ![p].at = Pos("cat", "open")]
          /\ UNCHANGED vdirs
       \/ /\ calls[p].at \in {Pos("cat", "persisted"), Pos("fb", "persisted")}
          /\ calls' = [calls EXCEPT ![p].at = Pos("glob", "open")]
          /\ vdirs' = vdirs \cup {GLOBAL}
    /\ UNCHANGED <<kb, kbDirs, idx, tmpIdx, fbIdx, vsCache, lastOp, ops, faults>>
    /\ UNCHANGED <<defIdx, processed, splitter>>

\* LocalOllamaEmbeddingModel._get_embedding: requests.post without a timeout.
\* The backend answers, answers with an error, or never answers.  An error
\* sends the category insert to the fallback store, fails the call when the
\* fallback insert meets it, and is only logged for the global mirror.
Embed(p, reply) ==
    LET ph == calls[p].at.ph
    IN /\ calls[p].at.st = "open"
       /\ calls' = [calls EXCEPT ![p].at =
                      IF reply = "answer" THEN Pos(ph, "embedded")
                      ELSE IF reply = "silent" THEN Pos(ph, "blocked")
                      ELSE IF ph = "cat" THEN Pos("fb", "open")
                      ELSE IF ph = "fb" THEN Pos("none", "returned_false")
                      ELSE Pos("none", "returned_true")]
       /\ UNCHANGED <<kb, kbDirs, vdirs, idx, tmpIdx, fbIdx, vsCache, lastOp, ops,
                      faults, defIdx, processed, splitter>>

\* The records of the file are added to the opened store.
Insert(p) ==
    LET ph == calls[p].at.ph
        f == calls[p].file
    IN /\ calls[p].at.st = "embedded"
       /\ calls' = [calls EXCEPT ![p].at = Pos(ph, "inserted")]
       /\ idx' = IF ph = "cat"
                 THEN [idx EXCEPT ![f[1]] = AddRecords(@, f, NumChunks(f))]
                 ELSE IF ph = "glob"
                 THEN [idx EXCEPT ![GLOBAL] = AddRecords(@, f, NumChunks(f))]
                 ELSE idx
       /\ fbIdx' = IF ph = "fb"
                   THEN [fbIdx EXCEPT ![f[1]] = AddRecords(@, f, NumChunks(f))]
                   ELSE fbIdx
       /\ UNCHANGED <<kb, kbDirs, vdirs, tmpIdx, vsCache, lastOp, ops, faults>>
       /\ UNCHANGED <<defIdx, processed, splitter>>

\* vectordb.persist(); after the global store embed_single_file returns True.
Persist(p) ==
    LET ph == calls[p].at.ph
    IN /\ calls[p].at.st = "inserted"
       /\ calls' = [calls EXCEPT ![p].at =
                      IF ph = "glob" THEN Pos("none", "returned_true")
                      ELSE Pos(ph, "persisted")]
       /\ UNCHANGED <<kb, kbDirs, vdirs, idx, tmpIdx, fbIdx, vsCache, lastOp, ops,
                      faults, defIdx, processed, splitter>>

\* One step of the thread of session p inside embed_single_file.
ThreadStep(p) ==
    \/ Open(p)
    \/ \E reply \in Replies : Embed(p, reply)
    \/ Insert(p)
    \/ Persist(p)

ConcNext ==
    \/ \E p \in Sessions, f \in UploadFiles : Begin(p, f)
    \/ \E p \in Sessions : Open(p)
    \/ \E p \in Sessions, reply \in Replies : Embed(p, reply)
    \/ \E p \in Sessions : Insert(p)
    \/ \E p \in Sessions : Persist(p)

\* Every running thread is scheduled again and again.
ConcSpec ==
    Init /\ [][ConcNext]_vars /\ \A p \in Sessions : WF_vars(ThreadStep(p))

\* ------------------------------------------------------ splitting a text
\* A text is a sequence of characters over this alphabet.
Alphabet == {"a", "b", " ", "."}

Texts == UNION {[1..n -> Alphabet] : n \in 0..MaxTextLen}

\* config.TEXT_SEPARATORS, in its order, without the separators that contain
\* a character outside Alphabet: the splitter skips a separator that does
\* not occur in the text, so those never take part.
TEXT_SEPARATORS == <<".", " ", "">>

\* The separators of a RecursiveCharacterTextSplitter built without the
\* separators argument ("\n\n", "\n", " ", ""), reduced the same way.
DefaultSeparators == <<" ", "">>

\* How get_text_splitter sees its argument: no path at all (every caller in
\* the repository), an academic file name, a file above 1 MB, any other.
Kinds == {"none", "academic", "long", "plain"}

\* RecursiveCharacterTextSplitter(chunk_size, chunk_overlap, separators):
\* the constructor raises when the overlap is larger than the chunk size.
Raises(size, overlap) == overlap > size

FallbackSplitter ==
    [chunk_size |-> 1000, chunk_overlap |-> 100, separators |-> DefaultSeparators]

get_text_splitter(kind, size, overlap) ==
    LET s == IF kind = "academic" THEN size \div 2 ELSE size
        o == IF kind = "academic" THEN overlap \div 2 ELSE overlap
    IN  IF Raises(s, o)
        THEN FallbackSplitter
        ELSE [chunk_size |-> s, chunk_overlap |-> o, separators |-> TEXT_SEPARATORS]

RECURSIVE StripLeft(_)
StripLeft(t) == IF t # <<>> /\ Head(t) = " " THEN StripLeft(Tail(t)) ELSE t

RECURSIVE StripRight(_)
StripRight(t) ==
    IF t # <<>> /\ t[Len(t)] = " " THEN StripRight(SubSeq(t, 1, Len(t) - 1)) ELSE t

\* str.strip()
Strip(t) == StripRight(StripLeft(t))

RECURSIVE Flatten(_)
Flatten(ps) == IF ps = <<>> THEN <<>> ELSE Head(ps) \o Flatten(Tail(ps))

TotalLen(ps) == Len(Flatten(ps))

\* _join_docs: the pieces joined and stripped; an empty result is no chunk.
AppendDoc(docs, ps) ==
    IF Strip(Flatten(ps)) = <<>> THEN docs ELSE Append(docs, Strip(Flatten(ps)))

\* The inner loop of _merge_splits: drop pieces from the front of the window
\* until it is within the overlap and the next piece of length n fits.
RECURSIVE Shrink(_, _, _, _)
Shrink(cur, n, size, overlap) ==
    IF \/ TotalLen(cur) > overlap
       \/ (TotalLen(cur) + n > size /\ TotalLen(cur) > 0)
    THEN Shrink(Tail(cur), n, size, overlap)
    ELSE cur

RECURSIVE MergeLoop(_, _, _, _, _)
MergeLoop(splits, cur, docs, size, overlap) ==
    IF splits = <<>>
    THEN AppendDoc(docs, cur)
    ELSE LET d == Head(splits)
         IN  IF TotalLen(cur) + Len(d) > size /\ cur # <<>>
             THEN MergeLoop(Tail(splits),
                            Append(Shrink(cur, Len(d), size, overlap), d),
                            AppendDoc(docs, cur), size, overlap)
             ELSE MergeLoop(Tail(splits), Append(cur, d), docs, size, overlap)

\* _merge_splits(splits, ""): the separator is kept inside the pieces.
merge_splits(splits, size, overlap) == MergeLoop(splits, <<>>, <<>>, size, overlap)

RECURSIVE Pieces(_, _, _, _)
Pieces(text, sep, cur, acc) ==
    IF text = <<>> THEN Append(acc, cur)
    ELSE IF Head(text) = sep
         THEN Pieces(Tail(text), sep, <<sep>>, Append(acc, cur))
         ELSE Pieces(Tail(text), sep, Append(cur, Head(text)), acc)

\* _split_text_with_regex with keep_separator: every piece but the first
\* starts with the separator; empty pieces are dropped; the separator ""
\* splits into single characters.
SplitWithSeparator(text, sep) ==
    IF sep = ""
    THEN [i \in 1..Len(text) |-> <<text[i]>>]
    ELSE SelectSeq(Pieces(text, sep, <<>>, <<>>), LAMBDA p : p # <<>>)

\* The first separator that is "" or occurs in the text.
RECURSIVE PickIndex(_, _, _)
PickIndex(text, seps, i) ==
    IF i >= Len(seps) THEN Len(seps)
    ELSE IF seps[i] = "" \/ (\E j \in 1..Len(text) : text[j] = seps[i])
         THEN i
         ELSE PickIndex(text, seps, i + 1)

RECURSIVE split_text(_, _, _, _)
RECURSIVE SplitLoop(_, _, _, _, _, _)
SplitLoop(splits, good, final, rest, size, overlap) ==
    LET flushed == IF good = <<>> THEN final
                   ELSE final \o merge_splits(good, size, overlap)
    IN  IF splits = <<>> THEN flushed
        ELSE LET p == Head(splits)
             IN  IF Len(p) < size
                 THEN SplitLoop(Tail(splits), Append(good, p), final, rest,
                                size, overlap)
                 ELSE SplitLoop(Tail(splits), <<>>,
                                flushed \o (IF rest = <<>> THEN <<p>>
                                            ELSE split_text(p, rest, size, overlap)),
                                rest, size, overlap)

\* RecursiveCharacterTextSplitter._split_text
split_text(text, seps, size, overlap) ==
    LET i == PickIndex(text, seps, 1)
        rest == IF seps[i] = "" THEN <<>> ELSE SubSeq(seps, i + 1, Len(seps))
    IN  SplitLoop(SplitWithSeparator(text, seps[i]), <<>>, <<>>, rest, size, overlap)

\* One splitting job: the configuration and the text are chosen, ...
SplitInit ==
    /\ kb = [f \in Files |-> "none"]
    /\ kbDirs = {<<"a">>, <<"b">>}
    /\ vdirs = {}
    /\ idx = [k \in KeyPaths |-> EmptyIndex]
    /\ tmpIdx = [k \in KeyPaths |-> EmptyIndex]
    /\ fbIdx = [k \in KeyPaths |-> EmptyIndex]
    /\ vsCache = "unset"
    /\ lastOp = NoOp
    /\ ops = 0
    /\ faults = 0
    /\ calls = [p \in Sessions |-> IdleCall]
    /\ defIdx = [k \in KeyPaths |-> EmptyIndex]
    /\ processed = {}
    /\ \E size \in 2..MaxChunkSize, overlap \in 0..MaxChunkSize,
          kind \in Kinds, text \in Texts :
            splitter = [NoSplit EXCEPT !.size = size, !.overlap = overlap,
                                       !.kind = kind, !.text = text]

\* ... get_text_splitter builds the splitter, ...
BuildSplitter ==
    /\ splitter.stage = "configured"
    /\ splitter' = [splitter EXCEPT
                      !.stage = "built",
                      !.built = get_text_splitter(splitter.kind, splitter.size,
                                                  splitter.overlap)]
    /\ UNCHANGED <<kb, kbDirs, vdirs, idx, tmpIdx, fbIdx, vsCache, lastOp, ops,
                   faults, calls, defIdx, processed>>

\* ... and split_documents cuts the text into chunks.
SplitDocument ==
    /\ splitter.stage = "built"
    /\ splitter' = [splitter EXCEPT
                      !.stage = "split",
                      !.chunks = split_text(splitter.text,
                                            splitter.built.separators,
                                            splitter.built.chunk_size,
                                            splitter.built.chunk_overlap)]
    /\ UNCHANGED <<kb, kbDirs, vdirs, idx, tmpIdx, fbIdx, vsCache, lastOp, ops,
                   faults, calls, defIdx, processed>>

SplitNext == BuildSplitter \/ SplitDocument

SplitSpec == SplitInit /\ [][SplitNext]_vars

\* ----------------------------------------- upload section of one session
\* One rerun of render_upload_section with the file `name` in the uploader of
\* category c: a name found in st.session_state.files_processed is skipped;
\* any other file goes through process_uploaded_file, "processed
\* successfully" is shown and its name joins files_processed.
UploadSection(c, name, content, authOk, upOk, env) ==
    /\ IF name \in processed
       THEN /\ Tick(FALSE)
            /\ content = "ok" /\ authOk /\ upOk /\ env = HealthyEnv
            /\ <<<<c>>, name>> \in Files
            /\ lastOp' = [NoOp EXCEPT !.op = "skip", !.file = <<<<c>>, name>>,
                                      !.key = <<c>>]
            /\ UNCHANGED <<kb, kbDirs, vdirs, idx, tmpIdx, fbIdx, vsCache,
                           processed>>
       ELSE /\ Tick(~authOk \/ ~upOk \/ env # HealthyEnv \/ content # "ok")
            /\ process_uploaded_file(c, name, content, authOk, upOk, env)
            /\ processed' = processed \cup {name}
    /\ UNCHANGED <<calls, defIdx, splitter>>

\* The browser session ends and a new one starts with an empty
\* st.session_state.
NewSession ==
    /\ processed # {}
    /\ processed' = {}
    /\ UNCHANGED <<kb, kbDirs, vdirs, idx, tmpIdx, fbIdx, vsCache, lastOp, ops,
                   faults, calls, defIdx, splitter>>

SectionNext ==
    \/ \E c \in UserCats, name \in {"x", "y"}, content \in {"ok", "bad"},
          authOk \in BOOLEAN, upOk \in BOOLEAN, env \in Envs :
           UploadSection(c, name, content, authOk, upOk, env)
    \/ NewSession

SectionSpec == Init /\ [][SectionNext]_vars

\* ------------------------------------------- the functions of the index
\* Direct calls of the functions vectordb_utils exports, next to uploads,
\* Drive syncs and chat requests.
ApiStep(faulty) ==
    /\ Tick(faulty)
    /\ UNCHANGED <<calls, processed, splitter>>

\* embed_single_file(path) without a category, on a saved document.
IndexOne(f, env) ==
    LET r == embed_single_file(Stores, f, NoKey, env)
    IN /\ ApiStep(env # HealthyEnv)
       /\ kb[f] # "none"
       /\ SetStores(r.s)
       /\ lastOp' = IndexOp("index", f, CategoryPath(f, NoKey), env, kb[f], r)
       /\ UNCHANGED <<kbDirs, vsCache, defIdx>>

\* The categories update_all_categories_to_vectordb finds documents for: the
\* parent directories of the files whose loader returns documents.
LoadedCategories == {k \in DirPaths :
                       \E f \in Files : f[1] = k /\ load_single_document(Stores, f) > 0}

\* update_all_categories_to_vectordb: for every category, load and split its
\* files and call add_documents_to_vectordb(split_docs, category), which makes
\* the directory and inserts through get_chroma_instance into collection
\* "default"; h: get_embedding_model returns a model.
UpdateAllCategories(h) ==
    /\ ApiStep(~h)
    /\ vdirs' = vdirs \cup LoadedCategories
    /\ defIdx' = [k \in KeyPaths |->
                    IF h /\ k \in LoadedCategories
                    THEN [f \in Files |->
                            defIdx[k][f] + (IF f[1] = k
                                            THEN load_single_document(Stores, f)
                                            ELSE 0)]
                    ELSE defIdx[k]]
    /\ lastOp' = [NoOp EXCEPT !.op = "update_all", !.ok = TRUE, !.healthy = h,
                              !.fault = IF h THEN "none" ELSE "health"]
    /\ UNCHANGED <<kb, kbDirs, idx, tmpIdx, fbIdx, vsCache>>

\* load_doc_retriever_by_paths([key]): when the directory of the key exists,
\* a retriever over what get_chroma_instance opens there: collection "default".
LoadByPaths(key, h) ==
    /\ ApiStep(~h)
    /\ lastOp' = [NoOp EXCEPT
                    !.op = "load_by_paths", !.key = key, !.healthy = h,
                    !.fault = IF h THEN "none" ELSE "health",
                    !.ok = (h /\ key \in vdirs),
                    !.handed = (h /\ key \in vdirs),
                    !.opened = (h /\ key \in vdirs),
                    !.retrCount = IF h /\ key \in vdirs
                                  THEN Count(defIdx[key]) ELSE 0,
                    !.returned = IF h /\ key \in vdirs
                                 THEN {f \in Files : defIdx[key][f] > 0} ELSE {}]
    /\ UNCHANGED <<kb, kbDirs, vdirs, idx, tmpIdx, fbIdx, vsCache, defIdx>>

\* load_all_documents_as_retriever: builds the global store when its
\* directory is missing, then a retriever over what get_chroma_instance opens
\* in the global directory.
LoadAllDocuments(e, h) ==
    LET r == IF GLOBAL \in vdirs THEN [s |-> Stores, ok |-> TRUE]
             ELSE ensure_global_vectordb(Stores, e)
        got == r.ok /\ h
    IN /\ ApiStep(~h \/ e # "ok")
       /\ (e # "ok" => h /\ GLOBAL \notin vdirs)
       /\ SetStores([r.s EXCEPT !.vdirs = IF got THEN @ \cup {GLOBAL} ELSE @])
       /\ lastOp' = [NoOp EXCEPT
                       !.op = "load_all", !.key = GLOBAL,
                       !.healthy = (h /\ e = "ok"),
                       !.fault = IF h /\ e = "ok" THEN "none" ELSE "health",
                       !.ok = got, !.handed = got, !.opened = got,
                       !.ensured = IF GLOBAL \in vdirs THEN 0 ELSE 1,
                       !.retrCount = IF got THEN Count(defIdx[GLOBAL]) ELSE 0,
                       !.returned = IF got
                                    THEN {f \in Files : defIdx[GLOBAL][f] > 0}
                                    ELSE {}]
       /\ UNCHANGED <<kbDirs, vsCache, defIdx>>

\* delete_vector_db(category): shutil.rmtree(VECTOR_DB_PATH / category) when
\* it exists: the directory goes with everything below it.  The directory
\* exists as soon as a directory at or below it was made (mkdir with
\* parents=True).
DeleteVectorDb(key) ==
    /\ ApiStep(FALSE)
    /\ vdirs' = {d \in vdirs : ~Under(d, key)}
    /\ idx' = [k \in KeyPaths |-> IF Under(k, key) THEN EmptyIndex ELSE idx[k]]
    /\ defIdx' = [k \in KeyPaths |->
                    IF Under(k, key) THEN EmptyIndex ELSE defIdx[k]]
    /\ lastOp' = [NoOp EXCEPT !.op = "delete_vector_db", !.key = key, !.ok = TRUE]
    /\ UNCHANGED <<kb, kbDirs, tmpIdx, fbIdx, vsCache>>

ApiNext ==
    \/ \E c \in UserCats, name \in {"x", "y"}, content \in {"ok", "bad"},
          authOk \in BOOLEAN, upOk \in BOOLEAN, env \in Envs :
           Upload(c, name, content, authOk, upOk, env)
    \/ \E c \in DriveCats, name \in {"x", "y"}, content \in {"ok", "bad"},
          env \in Envs :
           DriveSync(c, name, content, env)
    \/ \E f \in Files, env \in Envs : IndexOne(f, env)
    \/ \E h \in BOOLEAN : UpdateAllCategories(h)
    \/ \E key \in DirPaths, h \in BOOLEAN : LoadByPaths(key, h)
    \/ \E e \in EnsureOutcomes, h \in BOOLEAN : LoadAllDocuments(e, h)
    \/ \E key \in KeyPaths : DeleteVectorDb(key)
    \/ \E i \in KnowledgeInputs : KnowledgeChat(i)
    \/ \E c \in {"", "a", "b"}, docs \in {{}, {"x"}, {"x", "y"}},
          i \in CategoryInputs :
           CategoryChat(c, docs, i)

ApiSpec == Init /\ [][ApiNext]_vars

\* ================================================================ claims
IndexingOps == {"upload", "sync"}

\* The documents under the knowledge root.
Present == {f \in Files : kb[f] # "none"}

\* f has a record in the index of a category, and one in the global index.
Represented(f) ==
    /\ \E k \in DirPaths : idx[k][f] >= 1
    /\ idx[GLOBAL][f] >= 1

\* C1: after the rebuild script has run on a knowledge root that holds at
\* least one document, with the embedding backend available and every file
\* decodable, every document has a record in a category index and a record
\* in the global index.
C1_RebuildIndexesEveryDocument ==
    (/\ lastOp.op = "rebuild"
     /\ lastOp.healthy
     /\ Present # {}
     /\ \A f \in Present : kb[f] = "ok")
        => \A f \in Present : Represented(f)

\* C2: a rebuild that runs right after a rebuild, with the same file tree,
\* leaves under every index key the number of records the first run left.
C2_RebuildTwiceSameCounts ==
    [][(lastOp.op = "rebuild" /\ lastOp'.op = "rebuild" /\ ops' = ops + 1)
          => \A k \in KeyPaths : Count(idx'[k]) = Count(idx[k])]_vars

C2_Witness ==
    /\ lastOp.op = "rebuild"
    /\ lastOp.streak >= 2
    /\ Present # {}
    /\ GLOBAL \in vdirs

\* C3: after the rebuild script has run, no index, category or global, holds
\* a record whose source document is not under the knowledge root.
C3_RebuildLeavesNoStaleRecord ==
    lastOp.op = "rebuild"
        => \A k \in KeyPaths : \A f \in Files : idx[k][f] >= 1 => f \in Present

\* C4: as long as no operation met a failing backend, store or Drive call
\* and every document is decodable, every document under the knowledge root
\* has a record in a category index and a record in the global index.
C4_EveryDocumentRepresented ==
    (faults = 0 /\ lastOp.op \in IndexingOps \cup {"rebuild"})
        => \A f \in Present : Represented(f)

\* C5: when embed_single_file has inserted the records of a file into the
\* category index and the mirror insert into the global index fails, the
\* call returns success and the category index keeps the inserted records.
C5_MirrorFailureStillSuccess ==
    [][(/\ ops' = ops + 1
        /\ lastOp'.op \in IndexingOps
        /\ lastOp'.catLoc = "main"
        /\ ~lastOp'.globalOk)
          => /\ lastOp'.ok
             /\ idx'[lastOp'.key][lastOp'.file]
                   = idx[lastOp'.key][lastOp'.file] + NumChunks(lastOp'.file)
             /\ idx'[GLOBAL] = idx[GLOBAL]]_vars

C5_Witness ==
    /\ lastOp.op = "upload"
    /\ lastOp.catLoc = "main"
    /\ ~lastOp.globalOk
    /\ lastOp.ok
    /\ idx[lastOp.key][lastOp.file] >= 1
    /\ idx[GLOBAL][lastOp.file] = 0

\* C6: when the embedding backend is unreachable or answers with an error
\* while embed_single_file embeds the chunks of a file for the category
\* index, the call returns failure and no record of the file is added to the
\* category index, the global index or a fallback location.
C6_EmbeddingFailureAborts ==
    (lastOp.op \in IndexingOps /\ lastOp.fault \in {"health", "embed"})
        => /\ ~lastOp.ok
           /\ lastOp.catLoc = "none"
           /\ ~lastOp.globalOk

\* C7: whenever handle_chat hands a retriever to the QA chain, the index
\* behind it holds at least one record; with a missing or empty index no
\* retriever is handed over.
C7_RetrieverNeverEmpty ==
    (lastOp.op = "chat" /\ lastOp.handed) => lastOp.retrCount >= 1

\* C8: a knowledge_chat request that finds the global index absent or
\* without records runs the full rebuild of the global index
\* (ensure_global_vectordb) before it returns a retriever or an error.
C8_EmptyGlobalIsRebuilt ==
    [][(/\ ops' = ops + 1
        /\ lastOp'.op = "chat"
        /\ lastOp'.mode = "knowledge_chat"
        /\ (GLOBAL \notin vdirs \/ Count(idx[GLOBAL]) = 0))
          => lastOp'.ensured >= 1]_vars

\* C9: a category_qa request whose category index holds no record when it is
\* opened gets no retriever: handle_chat returns the "document loading
\* failed" message and runs no query.
C9_EmptyCategoryIndexSignalled ==
    (/\ lastOp.op = "chat"
     /\ lastOp.mode = "category_qa"
     /\ lastOp.opened
     /\ Count(idx[lastOp.key]) = 0)
        => /\ lastOp.msg = "document_loading_failed"
           /\ ~lastOp.handed
           /\ ~lastOp.ok

C9_Witness ==
    /\ lastOp.op = "chat"
    /\ lastOp.mode = "category_qa"
    /\ lastOp.opened
    /\ lastOp.docs # {}
    /\ Count(idx[lastOp.key]) = 0
    /\ lastOp.msg = "document_loading_failed"

\* C10: a category_qa request without a category or without selected
\* documents returns the "select category and docs" message before an index
\* is opened and before a document is loaded or an embedding model requested.
C10_SelectionCheckedFirst ==
    (/\ lastOp.op = "chat"
     /\ lastOp.mode = "category_qa"
     /\ (lastOp.key = NoKey \/ lastOp.docs = {}))
        => /\ lastOp.msg = "select_category_and_docs"
           /\ ~lastOp.opened
           /\ ~lastOp.worked
           /\ ~lastOp.handed

C10_Witness ==
    /\ lastOp.op = "chat"
    /\ lastOp.mode = "category_qa"
    /\ lastOp.key # NoKey
    /\ lastOp.docs = {}
    /\ Count(idx[lastOp.key]) >= 1
    /\ lastOp.msg = "select_category_and_docs"

\* The files saved under the directory that category key names.
FilesOfCategory(key) == {f \in Files : f[1] = key}

\* C11: every record a category_qa search returns belongs to a selected
\* document: with records of x and y in the category index and only x
\* selected, no record of y is returned.
C11_OnlySelectedReturned ==
    (lastOp.op = "chat" /\ lastOp.mode = "category_qa")
        => \A f \in lastOp.returned : f[2] \in lastOp.docs

C11_Witness ==
    /\ lastOp.op = "chat"
    /\ lastOp.mode = "category_qa"
    /\ lastOp.msg = "answer"
    /\ lastOp.key = <<"a">>
    /\ lastOp.docs = {"x"}
    /\ idx[<<"a">>][<<<<"a">>, "x">>] >= 1
    /\ idx[<<"a">>][<<<<"a">>, "y">>] >= 1

\* C12: when a file f saved in category c is under the knowledge root, the
\* category index of c holds its records and the name of f is among the
\* selected documents, a category_qa search on c that reaches the QA chain
\* returns a record of f.
C12_SelectedFileIsFound ==
    (lastOp.op = "chat" /\ lastOp.mode = "category_qa" /\ lastOp.msg = "answer")
        => \A f \in FilesOfCategory(lastOp.key) :
              (kb[f] = "ok" /\ f[2] \in lastOp.docs /\ idx[lastOp.key][f] >= 1)
                  => f \in lastOp.returned

Indexed(f) == \E k \in DirPaths : idx[k][f] >= 1

\* C14: after a rebuild over a knowledge root that holds a document that
\* cannot be loaded next to documents that can, with the backends healthy,
\* every document that can be loaded has a record in a category index.
C14_BadFileDoesNotStopBatch ==
    (/\ lastOp.op = "rebuild"
     /\ lastOp.healthy
     /\ \E f \in Present : kb[f] = "bad")
        => \A f \in Present : kb[f] = "ok" => Indexed(f)

\* C15: what the upload section reports for the files of a batch tells the
\* indexed files from the skipped ones: a file is reported as processed
\* successfully only when process_uploaded_file indexed it.
C15_BatchResultTellsFailures ==
    (lastOp.op = "upload" /\ "success" \in lastOp.shown) => lastOp.ok

\* The threads inside the open -> insert -> persist sequence of index key k.
Writers(k) ==
    {p \in Sessions :
        /\ calls[p].at.st \in {"open", "embedded", "blocked", "inserted"}
        /\ \/ calls[p].at.ph = "cat" /\ calls[p].file[1] = k
           \/ calls[p].at.ph = "glob" /\ k = GLOBAL}

\* C16: at any instant at most one thread is inside the open -> insert ->
\* persist sequence of a given index key.
C16_OneWriterPerKey == \A k \in KeyPaths : Cardinality(Writers(k)) <= 1

\* C17: every call of embed_single_file that has started eventually returns,
\* with success or with failure.
C17_EveryCallReturns ==
    \A p \in Sessions :
        (calls[p].at.st = "loaded")
            ~> (calls[p].at.st \in {"returned_true", "returned_false"})

\* C18: when embed_single_file has put the records of a category in a
\* temporary location (TEMP_DIR/vectordb or TEMP_DIR/chroma_fallback), a later
\* category_qa request for that category, itself meeting no failure, gets a
\* retriever over at least those records.
C18_FallbackRecordsFound ==
    (/\ lastOp.op = "chat"
     /\ lastOp.mode = "category_qa"
     /\ lastOp.healthy
     /\ lastOp.docs # {}
     /\ Count(tmpIdx[lastOp.key]) + Count(fbIdx[lastOp.key]) >= 1)
        => lastOp.retrCount
               >= Count(tmpIdx[lastOp.key]) + Count(fbIdx[lastOp.key])

\* C19: after delete_category has deleted a category, the index keyed by
\* that category holds no record.
C19_DeleteCategoryDeletesIndex ==
    (lastOp.op = "delete_category" /\ lastOp.ok)
        => Count(idx[lastOp.key]) = 0

\* C20: delete_file changes no index: every store holds after the deletion
\* the records it held before, those of the deleted document included.
C20_DeleteFileKeepsIndexes ==
    [][(ops' = ops + 1 /\ lastOp'.op = "delete")
          => /\ idx' = idx
             /\ tmpIdx' = tmpIdx
             /\ fbIdx' = fbIdx
             /\ vdirs' = vdirs]_vars

C20_Witness ==
    /\ lastOp.op = "delete"
    /\ kb[lastOp.file] = "none"
    /\ idx[lastOp.file[1]][lastOp.file] >= 1
    /\ idx[GLOBAL][lastOp.file] >= 1

\* C21: a category_qa request changes no index: under every key the records
\* are the same before and after it, and the read path creates or replaces
\* no index directory.
C21_ReadPathChangesNothing ==
    [][(/\ ops' = ops + 1
        /\ lastOp'.op = "chat"
        /\ lastOp'.mode = "category_qa")
          => /\ idx' = idx
             /\ vdirs' = vdirs]_vars

\* The texts that a sequence of chunks stands for when neighbours may share
\* up to `overlap` characters: each chunk after the first contributes what
\* follows its longest-or-shorter common part with the end of the chunk
\* before it.
RECURSIVE Reconstructions(_, _)
Reconstructions(chunks, overlap) ==
    IF chunks = <<>> THEN {<<>>}
    ELSE IF Len(chunks) = 1 THEN {chunks[1]}
    ELSE LET n == Len(chunks)
             prev == chunks[n - 1]
             last == chunks[n]
             shared == {o \in 0..overlap :
                          /\ o <= Len(prev)
                          /\ o <= Len(last)
                          /\ SubSeq(prev, Len(prev) - o + 1, Len(prev))
                               = SubSeq(last, 1, o)}
         IN  {t \o SubSeq(last, o + 1, Len(last)) :
                t \in Reconstructions(SubSeq(chunks, 1, n - 1), overlap),
                o \in shared}

\* C22: for a configured pair with CHUNK_OVERLAP < CHUNK_SIZE and the splitter
\* get_text_splitter builds from it with TEXT_SEPARATORS, the chunks of a text,
\* concatenated in order with the overlap between neighbours removed, give the
\* text back exactly.
C22_ChunksCoverText ==
    (/\ splitter.stage = "split"
     /\ splitter.overlap < splitter.size
     /\ splitter.built.separators = TEXT_SEPARATORS
     /\ splitter.built.chunk_overlap < splitter.built.chunk_size)
        => splitter.text \in Reconstructions(splitter.chunks,
                                             splitter.built.chunk_overlap)

\* C24: for every configured pair with 1 <= CHUNK_OVERLAP < CHUNK_SIZE and
\* every kind of file path, the splitter get_text_splitter returns has
\* chunk_size >= 1 and chunk_overlap strictly below chunk_size.
C24_OverlapBelowChunkSize ==
    (/\ splitter.stage # "configured"
     /\ 1 <= splitter.overlap
     /\ splitter.overlap < splitter.size)
        => /\ splitter.built.chunk_size >= 1
           /\ splitter.built.chunk_overlap < splitter.built.chunk_size

\* C23: every record written by embed_single_file, for an upload or for a
\* Drive sync, is stored under the key (and labelled with the category) that
\* is the parent directory of its source document relative to the knowledge
\* root.
C23_KeyIsParentDirectory ==
    (/\ lastOp.op \in IndexingOps
     /\ lastOp.catLoc # "none")
        => lastOp.key = lastOp.file[1]

\* The metadata fields each write path sets on the documents it is about to
\* split and insert.
MetadataFields(writer) ==
    CASE writer = "embed_single_file" -> {"source", "relative_path", "category"}
      [] writer = "update_global_vectordb_with_file" -> {"source", "relative_path"}
      [] writer = "ensure_global_vectordb" -> {"source", "relative_path"}

\* The write paths that insert under a key: the global index is written by
\* the mirror step and by ensure_global_vectordb, every other key by
\* embed_single_file.
WritersOf(k) ==
    IF k = GLOBAL
    THEN {"update_global_vectordb_with_file", "ensure_global_vectordb"}
    ELSE {"embed_single_file"}

\* C25: every record stored in any index, category or global, carries the
\* three metadata fields source, relative_path and category.
C25_RecordsCarryAllMetadata ==
    \A k \in KeyPaths :
        (\E f \in Files : idx[k][f] > 0)
            => \A w \in WritersOf(k) :
                   MetadataFields(w) = {"source", "relative_path", "category"}

\* C27: after a knowledge_chat request that failed on the global store, the
\* next knowledge_chat request, made with every backend available and with
\* records in the global index, hands a retriever to the QA chain and leaves
\* the records of the global index as they were.
C27_FailedRequestLeavesNoTrace ==
    [][(/\ lastOp.op = "chat"
        /\ lastOp.mode = "knowledge_chat"
        /\ lastOp.msg \in {"global_init_failed", "global_load_failed"}
        /\ Count(idx[GLOBAL]) > 0
        /\ ops' = ops + 1
        /\ faults' = faults
        /\ lastOp'.op = "chat"
        /\ lastOp'.mode = "knowledge_chat")
          => /\ lastOp'.handed
             /\ idx'[GLOBAL] = idx[GLOBAL]]_vars

\* C29: an upload whose only failure is on the Google Drive side (the
\* authentication or the Drive upload) still indexes the uploaded file into
\* its category index.
C29_UploadIndexesWithoutDrive ==
    (/\ lastOp.op = "upload"
     /\ lastOp.fault = "drive")
        => Indexed(lastOp.file)

\* C30: in the upload section a file whose processing failed is neither
\* reported as processed successfully nor added to the processed set, and a
\* file is skipped only when that very file, category and name, was indexed
\* by an upload before.
C30_OnlySuccessIsRemembered ==
    /\ (lastOp.op = "upload" /\ ~lastOp.ok)
          => /\ lastOp.file[2] \notin processed
             /\ "success" \notin lastOp.shown
    /\ lastOp.op = "skip" => Indexed(lastOp.file)

\* C26: delete_vector_db(key) leaves the records of every other key as they
\* were, the nested keys key/child and the global key included.
C26_DeleteVectorDbOnlyItsKey ==
    [][(/\ ops' = ops + 1
        /\ lastOp'.op = "delete_vector_db")
          => \A k \in KeyPaths \ {lastOp'.key} :
                 /\ idx'[k] = idx[k]
                 /\ defIdx'[k] = defIdx[k]]_vars

\* C28: what one path writes under a key the read paths of that key return:
\* the records embed_single_file and its mirror step inserted are returned by
\* the retrievers of load_doc_retriever_by_paths and
\* load_all_documents_as_retriever, and the records add_documents_to_vectordb
\* inserted are behind the retriever a category_qa request obtains.
C28_ReadersSeeWhatWritersWrote ==
    /\ (lastOp.op = "load_by_paths" /\ lastOp.handed)
          => \A f \in Files : idx[lastOp.key][f] > 0 => f \in lastOp.returned
    /\ (lastOp.op = "load_all" /\ lastOp.handed)
          => \A f \in Files : idx[GLOBAL][f] > 0 => f \in lastOp.returned
    /\ (/\ lastOp.op = "chat"
        /\ lastOp.mode = "category_qa"
        /\ lastOp.healthy
        /\ lastOp.docs # {})
          => (Count(defIdx[lastOp.key]) > 0
                => /\ lastOp.handed
                   /\ lastOp.retrCount >= Count(defIdx[lastOp.key]))

====
